---- MODULE Spec2Model ----
(***************************************************************************)
(* Model of sigil-gen (src/main.rs): the SigilApp state, the per-frame     *)
(* `update` handler with its text editor, glyph generation, animation and  *)
(* save timer.                                                             *)
(*                                                                         *)
(* Time is counted in quarter seconds, so every f32 value the code can     *)
(* hold in the model (frame times, save_timer, progress) is an exact       *)
(* binary fraction and the model's comparisons are the code's.             *)
(* A character is a string of length 1.  Option<usize> is a sequence of    *)
(* length 0 (None) or 1 (Some).  The position of a SigilPoint is not       *)
(* modelled (nothing below reads it): a point is its number label.         *)
(***************************************************************************)
EXTENDS Integers, Sequences, FiniteSets, TLC

VARIABLES
    state,            \* SigilApp.state: the variant of State
    progress,         \* State::Animating.progress, in quarters
    line,             \* State::Animating.line
    intention,        \* SigilApp.intention
    points,           \* SigilApp.points (the number of each point, in order)
    save_timer,       \* SigilApp.save_timer, in quarter seconds
    cursor_pos,       \* SigilApp.cursor_pos
    selection_start,  \* SigilApp.selection_start
    char_queue,       \* the input collaborator's queue behind get_char_pressed()
    saved,            \* outcome of save_sigil in the latest frame: "none", "ok", "err"
    from,             \* history: the screen the latest frame began on
    delivered         \* history: number of characters delivered in the latest frame

vars == <<state, progress, line, intention, points, save_timer, cursor_pos,
          selection_start, char_queue, saved, from, delivered>>

----------------------------------------------------------------------------
(* Bounds of the environment *)

\* the user of Spec types only while the text is shorter than this
MaxText == 2
\* characters delivered in one frame
MaxChars == 1
\* SpecCap: the user pastes and selects once the text is within this of the cap
CapWindow == 12
\* SpecCap: longest selection the user makes with Shift+Left
MaxSel == 2

(* Program constants *)

\* ANIMATION_SPEED
ANIMATION_SPEED == 3
\* the literal 100 of handle_text_input
MaxIntentionLen == 100
\* the literal 1.0 (one second, a completed segment) in quarters
ONE == 4

\* the frame times of Spec, in quarter seconds: half a second, and more than one
FrameTimes == {2, 5}

----------------------------------------------------------------------------
(* Characters *)

LowerLetters == <<"a","b","c","d","e","f","g","h","i","j","k","l","m",
                  "n","o","p","q","r","s","t","u","v","w","x","y","z">>
UpperLetters == <<"A","B","C","D","E","F","G","H","I","J","K","L","M",
                  "N","O","P","Q","R","S","T","U","V","W","X","Y","Z">>
DigitChars == <<"0","1","2","3","4","5","6","7","8","9">>

Range(seq) == {seq[i] : i \in 1..Len(seq)}
IndexIn(seq, c) == CHOOSE i \in 1..Len(seq) : seq[i] = c

is_ascii_digit(c) == c \in Range(DigitChars)
is_ascii_alphanumeric(c) ==
    c \in Range(LowerLetters) \cup Range(UpperLetters) \cup Range(DigitChars)
to_ascii_lowercase(c) ==
    IF c \in Range(UpperLetters) THEN LowerLetters[IndexIn(UpperLetters, c)] ELSE c
is_whitespace(c) == c = " "

\* ch.is_ascii_alphanumeric() || ch == ' '
Acceptable(ch) == is_ascii_alphanumeric(ch) \/ ch = " "

\* self.intention.trim().is_empty()
TrimIsEmpty(text) == \A i \in 1..Len(text) : is_whitespace(text[i])

Vowels == {"a","e","i","o","u","A","E","I","O","U"}

----------------------------------------------------------------------------
(* Option and String helpers (0-based offsets, as in the code) *)

Min(a, b) == IF a < b THEN a ELSE b
Max(a, b) == IF a < b THEN b ELSE a

None == <<>>
Some(x) == <<x>>

\* String::insert(idx, ch)
StrInsert(text, idx, ch) ==
    SubSeq(text, 1, idx) \o <<ch>> \o SubSeq(text, idx + 1, Len(text))
\* String::remove(idx)
StrRemove(text, idx) ==
    SubSeq(text, 1, idx) \o SubSeq(text, idx + 2, Len(text))
\* String::drain(start..end)
StrDrain(text, start, end) ==
    SubSeq(text, 1, start) \o SubSeq(text, end + 1, Len(text))

----------------------------------------------------------------------------
(* SigilApp: the operators below take and return the app as a record s *)

\* SigilApp::new
new ==
    [state |-> "Start", progress |-> 0, line |-> 0, intention |-> <<>>,
     points |-> <<>>, save_timer |-> 0, cursor_pos |-> 0,
     selection_start |-> None, char_queue |-> <<>>, saved |-> "none"]

\* SigilApp::selection_range
selection_range(s) ==
    IF s.selection_start = None THEN None
    ELSE LET start == s.selection_start[1] IN
         IF start < s.cursor_pos THEN Some(<<start, s.cursor_pos>>)
         ELSE Some(<<s.cursor_pos, start>>)

\* mutant of delete_selection: the anchor is not cleared
delete_selection_keeps_anchor(s) ==
    LET r == selection_range(s) IN
    IF r # None
    THEN [s EXCEPT !.intention = StrDrain(s.intention, r[1][1], r[1][2]),
                   !.cursor_pos = r[1][1]]
    ELSE s

\* SigilApp::delete_selection: the app afterwards
delete_selection(s) ==
    LET r == selection_range(s) IN
    IF r # None
    THEN [s EXCEPT !.intention = StrDrain(s.intention, r[1][1], r[1][2]),
                   !.cursor_pos = r[1][1],
                   !.selection_start = None]
    ELSE s

\* SigilApp::delete_selection: its return value
delete_selection_ret(s) == selection_range(s) # None

\* SigilApp::ctrl_down
ctrl_down(in) == "LeftControl" \in in.down \/ "RightControl" \in in.down

\* is_key_down(LeftShift) || is_key_down(RightShift)
shift_down(in) == "LeftShift" \in in.down \/ "RightShift" \in in.down

is_key_pressed(in, k) == k \in in.pressed

\* mutant of TypeChar: a character is also inserted into a text of 100
TypeCharIntoFull(s, ch) ==
    IF Acceptable(ch)
    THEN LET d == delete_selection(s) IN
         IF Len(d.intention) <= MaxIntentionLen
         THEN [d EXCEPT !.intention = StrInsert(d.intention, d.cursor_pos, ch),
                        !.cursor_pos = d.cursor_pos + 1]
         ELSE d
    ELSE s

\* handle_text_input: the body of the character loop for one character
TypeChar(s, ch) ==
    IF Acceptable(ch)
    THEN LET d == delete_selection(s) IN
         IF Len(d.intention) < MaxIntentionLen
         THEN [d EXCEPT !.intention = StrInsert(d.intention, d.cursor_pos, ch),
                        !.cursor_pos = d.cursor_pos + 1]
         ELSE d
    ELSE s

\* handle_text_input: while let Some(ch) = get_char_pressed()
RECURSIVE TypeChars(_)
TypeChars(s) ==
    IF s.char_queue = <<>> THEN s
    ELSE TypeChars(TypeChar([s EXCEPT !.char_queue = Tail(s.char_queue)],
                            Head(s.char_queue)))

\* while get_char_pressed().is_some() {}
ConsumeChars(s) == [s EXCEPT !.char_queue = <<>>]

\* handle_text_input: Backspace
Backspace(s) ==
    IF ~delete_selection_ret(s) /\ s.cursor_pos > 0
    THEN [s EXCEPT !.cursor_pos = s.cursor_pos - 1,
                   !.intention = StrRemove(s.intention, s.cursor_pos - 1)]
    ELSE delete_selection(s)

\* mutant of Delete: the selection is not looked at
DeleteIgnoresSelection(s) ==
    IF s.cursor_pos < Len(s.intention)
    THEN [s EXCEPT !.intention = StrRemove(s.intention, s.cursor_pos)]
    ELSE s

\* handle_text_input: Delete
Delete(s) ==
    IF ~delete_selection_ret(s) /\ s.cursor_pos < Len(s.intention)
    THEN [s EXCEPT !.intention = StrRemove(s.intention, s.cursor_pos)]
    ELSE delete_selection(s)

\* handle_text_input: Left
Left(s, shift) ==
    IF shift
    THEN IF s.cursor_pos > 0
         THEN [s EXCEPT !.cursor_pos = s.cursor_pos - 1,
                        !.selection_start =
                            IF s.selection_start = None
                            THEN Some((s.cursor_pos - 1) + 1)
                            ELSE s.selection_start]
         ELSE s
    ELSE [s EXCEPT !.cursor_pos = IF s.cursor_pos > 0 THEN s.cursor_pos - 1
                                  ELSE s.cursor_pos,
                   !.selection_start = None]

\* handle_text_input: Right
Right(s, shift) ==
    IF shift
    THEN IF s.cursor_pos < Len(s.intention)
         THEN [s EXCEPT !.selection_start =
                            IF s.selection_start = None THEN Some(s.cursor_pos)
                            ELSE s.selection_start,
                        !.cursor_pos = s.cursor_pos + 1]
         ELSE s
    ELSE [s EXCEPT !.cursor_pos = IF s.cursor_pos < Len(s.intention)
                                  THEN s.cursor_pos + 1 ELSE s.cursor_pos,
                   !.selection_start = None]

\* handle_text_input: Home
Home(s, shift) ==
    [s EXCEPT !.selection_start =
                  IF shift
                  THEN (IF s.selection_start = None THEN Some(s.cursor_pos)
                        ELSE s.selection_start)
                  ELSE None,
              !.cursor_pos = 0]

\* handle_text_input: End
End(s, shift) ==
    [s EXCEPT !.selection_start =
                  IF shift
                  THEN (IF s.selection_start = None THEN Some(s.cursor_pos)
                        ELSE s.selection_start)
                  ELSE None,
              !.cursor_pos = Len(s.intention)]

\* handle_text_input: Ctrl+A
SelectAll(s) ==
    [s EXCEPT !.selection_start = Some(0), !.cursor_pos = Len(s.intention)]

\* the placeholder clipboard of Ctrl+V
paste_text == <<"p","a","s","t","e","d","_","t","e","x","t">>

\* handle_text_input: Ctrl+V, the loop over paste_text.chars()
RECURSIVE PasteChars(_, _)
PasteChars(s, text) ==
    IF text = <<>> THEN s
    ELSE LET ch == Head(text) IN
         PasteChars(IF Acceptable(ch)
                    THEN [s EXCEPT !.intention = StrInsert(s.intention, s.cursor_pos, ch),
                                   !.cursor_pos = s.cursor_pos + 1]
                    ELSE s,
                    Tail(text))

\* handle_text_input: Ctrl+V
Paste(s) ==
    IF Len(s.intention) + Len(paste_text) <= MaxIntentionLen
    THEN PasteChars(delete_selection(s), paste_text)
    ELSE s

\* handle_text_input: Ctrl+X
Cut(s) ==
    LET r == selection_range(s) IN
    IF r # None
    THEN [s EXCEPT !.intention = StrDrain(s.intention, r[1][1], r[1][2]),
                   !.cursor_pos = r[1][1],
                   !.selection_start = None]
    ELSE s

\* handle_text_input: the key checks after the character loop, in their order
EditKeys == <<"Backspace", "Delete", "Left", "Right", "Home", "End", "A", "C", "V", "X">>

\* handle_text_input: the `if is_key_pressed(k) ...` block of key k
OnKey(s, in, k) ==
    IF ~is_key_pressed(in, k) THEN s
    ELSE CASE k = "Backspace" -> Backspace(s)
           [] k = "Delete" -> Delete(s)
           [] k = "Left" -> Left(s, shift_down(in))
           [] k = "Right" -> Right(s, shift_down(in))
           [] k = "Home" -> Home(s, shift_down(in))
           [] k = "End" -> End(s, shift_down(in))
           [] k = "A" -> IF ctrl_down(in) THEN SelectAll(s) ELSE s
           [] k = "C" -> s
           [] k = "V" -> IF ctrl_down(in) THEN Paste(s) ELSE s
           [] k = "X" -> IF ctrl_down(in) THEN Cut(s) ELSE s

RECURSIVE OnKeysFrom(_, _, _)
OnKeysFrom(s, in, i) ==
    IF i > Len(EditKeys) THEN s
    ELSE OnKeysFrom(OnKey(s, in, EditKeys[i]), in, i + 1)

\* SigilApp::handle_text_input
handle_text_input(s, in) == OnKeysFrom(TypeChars(s), in, 1)

----------------------------------------------------------------------------
(* Glyph generation *)

\* generate_sigil: the filter / map / filter chain that builds `filtered`
RECURSIVE FilterFrom(_, _)
FilterFrom(text, seen) ==
    IF text = <<>> THEN <<>>
    ELSE LET c == Head(text)
             l == to_ascii_lowercase(c)
         IN  IF is_ascii_alphanumeric(c) /\ c \notin Vowels /\ l \notin seen
             THEN <<l>> \o FilterFrom(Tail(text), seen \cup {l})
             ELSE FilterFrom(Tail(text), seen)

Filtered(text) == FilterFrom(text, {})

\* generate_sigil: a filtered character as a number 0-9
ToNumber(c) ==
    IF is_ascii_digit(c) THEN IndexIn(DigitChars, c) - 1
    ELSE (IndexIn(LowerLetters, c) - 1) % 10

Numbers(filtered) == [i \in 1..Len(filtered) |-> ToNumber(filtered[i])]

\* mutant of Swap: the element at j is copied to i, the one at i is lost
SwapCopies(v, i, j) == [v EXCEPT ![i + 1] = v[j + 1]]

\* Vec::swap(i, j), 0-based
Swap(v, i, j) == [v EXCEPT ![i + 1] = v[j + 1], ![j + 1] = v[i + 1]]

\* generate_sigil: for i in (1..len).rev() { j = gen_range(0, i + 1); swap(i, j) }
\* js[i] is the value gen_range returns at index i
RECURSIVE FisherYates(_, _, _)
FisherYates(v, i, js) ==
    IF i < 1 THEN v ELSE FisherYates(Swap(v, i, js[i]), i - 1, js)

\* the values rand::gen_range can return while shuffling n numbers
RandomDraws(n) == {js \in [1..(n - 1) -> 0..(n - 1)] : \A i \in 1..(n - 1) : js[i] <= i}

\* mutant of generate_sigil: an empty filtered string still shows the glyph
generate_sigil_shows_empty(s, js) ==
    IF TrimIsEmpty(s.intention) THEN s
    ELSE LET filtered == Filtered(s.intention) IN
         IF filtered = <<>> THEN [s EXCEPT !.state = "Display"]
         ELSE LET numbers == Numbers(filtered) IN
              [s EXCEPT !.points = FisherYates(numbers, Len(numbers) - 1, js),
                        !.state = "Display"]

\* SigilApp::generate_sigil
generate_sigil(s, js) ==
    IF TrimIsEmpty(s.intention) THEN s
    ELSE LET filtered == Filtered(s.intention) IN
         IF filtered = <<>> THEN s
         ELSE LET numbers == Numbers(filtered) IN
              [s EXCEPT !.points = FisherYates(numbers, Len(numbers) - 1, js),
                        !.state = "Display"]

\* SigilApp::save_sigil as update sees it: Ok(()) or an io::Error, no change of the app
save_sigil(s, io) == IF io THEN "ok" ELSE "err"

\* mutant of reset: the glyph is kept
reset_keeps_points(s) ==
    [s EXCEPT !.state = "Input", !.intention = <<>>,
              !.cursor_pos = 0, !.selection_start = None]

\* mutant of reset: back to the Start screen
reset_to_start(s) ==
    [s EXCEPT !.state = "Start", !.intention = <<>>, !.points = <<>>,
              !.cursor_pos = 0, !.selection_start = None]

\* SigilApp::reset (blink_timer is not modelled)
reset(s) ==
    [s EXCEPT !.state = "Input", !.intention = <<>>, !.points = <<>>,
              !.cursor_pos = 0, !.selection_start = None]

----------------------------------------------------------------------------
(* update: one frame.  in = [chars, pressed, down, dt, io, js] is what the
   collaborators give the frame: the characters queued since the last frame,
   the keys pressed in it, the keys held, get_frame_time(), whether the export
   succeeds, and the random draws. *)

\* mutant of SaveTimerStep: the timer is not reset when it expires
SaveTimerStepKeepsTime(s, in) ==
    IF s.state = "Saving"
    THEN LET t == s.save_timer + in.dt IN
         IF t > ONE
         THEN [s EXCEPT !.state = "Display", !.save_timer = t]
         ELSE [s EXCEPT !.save_timer = t]
    ELSE s

\* update: "Handle save timer"
SaveTimerStep(s, in) ==
    IF s.state = "Saving"
    THEN LET t == s.save_timer + in.dt IN
         IF t > ONE
         THEN [s EXCEPT !.state = "Display", !.save_timer = 0]
         ELSE [s EXCEPT !.save_timer = t]
    ELSE s

\* mutant of StartArm: the pending characters are not consumed
StartArmKeepsChars(s, in) ==
    IF is_key_pressed(in, "Space") THEN [s EXCEPT !.state = "Input"] ELSE s

\* update: State::Start arm
StartArm(s, in) ==
    LET c == ConsumeChars(s) IN
    IF is_key_pressed(in, "Space") THEN [c EXCEPT !.state = "Input"] ELSE c

\* mutant of InputArm: the characters typed in the frame of the Enter key
\* are dropped, and the glyph is not shuffled
InputArmDropsTyped(s, in) ==
    LET e == handle_text_input(IF is_key_pressed(in, "Enter") THEN ConsumeChars(s) ELSE s,
                               in)
    IN  IF is_key_pressed(in, "Enter") /\ ~TrimIsEmpty(e.intention)
        THEN generate_sigil(e, [i \in 1..Len(e.intention) |-> 0])
        ELSE e

\* update: State::Input arm
InputArm(s, in) ==
    LET e == handle_text_input(s, in) IN
    IF is_key_pressed(in, "Enter") /\ ~TrimIsEmpty(e.intention)
    THEN generate_sigil(e, in.js)
    ELSE e

\* mutant of DisplayArm: the animate key works on any glyph with a point
DisplayArmAnyPoints(s, in) ==
    LET c == ConsumeChars(s) IN
    IF is_key_pressed(in, "Space") /\ Len(c.points) > 0
    THEN [c EXCEPT !.state = "Animating", !.progress = 0, !.line = 0]
    ELSE IF is_key_pressed(in, "R") THEN reset(c)
    ELSE IF is_key_pressed(in, "S")
    THEN [c EXCEPT !.saved = save_sigil(c, in.io), !.state = "Saving"]
    ELSE c

\* mutant of DisplayArm: a failed export leaves the screen on Display
DisplayArmFailedSaveStays(s, in) ==
    LET c == ConsumeChars(s) IN
    IF is_key_pressed(in, "Space") /\ Len(c.points) > 1
    THEN [c EXCEPT !.state = "Animating", !.progress = 0, !.line = 0]
    ELSE IF is_key_pressed(in, "R") THEN reset(c)
    ELSE IF is_key_pressed(in, "S")
    THEN [c EXCEPT !.saved = save_sigil(c, in.io),
                   !.state = IF in.io THEN "Saving" ELSE "Display"]
    ELSE c

\* mutant of DisplayArm: the reset key goes back to Input without reset()
DisplayArmKeepsGlyph(s, in) ==
    LET c == ConsumeChars(s) IN
    IF is_key_pressed(in, "Space") /\ Len(c.points) > 1
    THEN [c EXCEPT !.state = "Animating", !.progress = 0, !.line = 0]
    ELSE IF is_key_pressed(in, "R") THEN [c EXCEPT !.state = "Input"]
    ELSE IF is_key_pressed(in, "S")
    THEN [c EXCEPT !.saved = save_sigil(c, in.io), !.state = "Saving"]
    ELSE c

\* mutant of DisplayArm: the save key is looked at before the reset key
DisplayArmSaveFirst(s, in) ==
    LET c == ConsumeChars(s) IN
    IF is_key_pressed(in, "Space") /\ Len(c.points) > 1
    THEN [c EXCEPT !.state = "Animating", !.progress = 0, !.line = 0]
    ELSE IF is_key_pressed(in, "S")
    THEN [c EXCEPT !.saved = save_sigil(c, in.io), !.state = "Saving"]
    ELSE IF is_key_pressed(in, "R") THEN reset(c)
    ELSE c

\* update: State::Display arm
DisplayArm(s, in) ==
    LET c == ConsumeChars(s) IN
    IF is_key_pressed(in, "Space") /\ Len(c.points) > 1
    THEN [c EXCEPT !.state = "Animating", !.progress = 0, !.line = 0]
    ELSE IF is_key_pressed(in, "R") THEN reset(c)
    ELSE IF is_key_pressed(in, "S")
    THEN [c EXCEPT !.saved = save_sigil(c, in.io), !.state = "Saving"]
    ELSE c

\* mutant of AnimatingArm: the reset key is handled while animating
AnimatingArmResets(s, in) ==
    LET c == ConsumeChars(s)
        p == c.progress + in.dt * ANIMATION_SPEED
    IN  IF is_key_pressed(in, "R") THEN [reset(c) EXCEPT !.progress = 0, !.line = 0]
        ELSE IF p >= ONE
        THEN LET l == c.line + 1 IN
             IF l >= Len(c.points) - 1
             THEN [c EXCEPT !.state = "Display", !.progress = 0, !.line = 0]
             ELSE [c EXCEPT !.progress = 0, !.line = l]
        ELSE [c EXCEPT !.progress = p]

\* mutant of AnimatingArm: the animation completes one segment too late
AnimatingArmOneMore(s, in) ==
    LET c == ConsumeChars(s)
        p == c.progress + in.dt * ANIMATION_SPEED
    IN  IF p >= ONE
        THEN LET l == c.line + 1 IN
             IF l > Len(c.points) - 1
             THEN [c EXCEPT !.state = "Display", !.progress = 0, !.line = 0]
             ELSE [c EXCEPT !.progress = 0, !.line = l]
        ELSE [c EXCEPT !.progress = p]

\* mutant of AnimatingArm: a finished segment is started again
AnimatingArmSameLine(s, in) ==
    LET c == ConsumeChars(s)
        p == c.progress + in.dt * ANIMATION_SPEED
    IN  IF p >= ONE
        THEN [c EXCEPT !.progress = 0]
        ELSE [c EXCEPT !.progress = p]

\* mutant of AnimatingArm: the excess of progress over 1 draws further segments
AnimatingArmSkips(s, in) ==
    LET c == ConsumeChars(s)
        p == c.progress + in.dt * ANIMATION_SPEED
    IN  IF p >= ONE
        THEN LET l == c.line + (p \div ONE) IN
             IF l >= Len(c.points) - 1
             THEN [c EXCEPT !.state = "Display", !.progress = 0, !.line = 0]
             ELSE [c EXCEPT !.progress = 0, !.line = l]
        ELSE [c EXCEPT !.progress = p]

\* update: State::Animating arm
AnimatingArm(s, in) ==
    LET c == ConsumeChars(s)
        p == c.progress + in.dt * ANIMATION_SPEED
    IN  IF p >= ONE
        THEN LET l == c.line + 1 IN
             IF l >= Len(c.points) - 1
             THEN [c EXCEPT !.state = "Display", !.progress = 0, !.line = 0]
             ELSE [c EXCEPT !.progress = 0, !.line = l]
        ELSE [c EXCEPT !.progress = p]

\* mutant of SavingArm: the pending characters are typed into the text
SavingArmTypes(s, in) == TypeChars(s)

\* update: State::Saving arm
SavingArm(s, in) == ConsumeChars(s)

\* update: the match on self.state
Dispatch(s, in) ==
    CASE s.state = "Start" -> StartArm(s, in)
      [] s.state = "Input" -> InputArm(s, in)
      [] s.state = "Display" -> DisplayArm(s, in)
      [] s.state = "Animating" -> AnimatingArm(s, in)
      [] s.state = "Saving" -> SavingArm(s, in)

\* SigilApp::update, with the frame's characters arriving in the queue first
update(s, in) ==
    Dispatch(SaveTimerStep([s EXCEPT !.char_queue = s.char_queue \o in.chars,
                                     !.saved = "none"], in), in)

----------------------------------------------------------------------------
(* The frame as an action *)

Self ==
    [state |-> state, progress |-> progress, line |-> line,
     intention |-> intention, points |-> points, save_timer |-> save_timer,
     cursor_pos |-> cursor_pos, selection_start |-> selection_start,
     char_queue |-> char_queue, saved |-> saved]

\* main: one iteration of the loop, app.update() on the frame's input
Frame(in) ==
    LET r == update(Self, in) IN
    /\ state' = r.state
    /\ progress' = r.progress
    /\ line' = r.line
    /\ intention' = r.intention
    /\ points' = r.points
    /\ save_timer' = r.save_timer
    /\ cursor_pos' = r.cursor_pos
    /\ selection_start' = r.selection_start
    /\ char_queue' = r.char_queue
    /\ saved' = r.saved
    /\ from' = state
    /\ delivered' = Len(in.chars)

\* main: let mut app = SigilApp::new()
Init ==
    /\ state = new.state
    /\ progress = new.progress
    /\ line = new.line
    /\ intention = new.intention
    /\ points = new.points
    /\ save_timer = new.save_timer
    /\ cursor_pos = new.cursor_pos
    /\ selection_start = new.selection_start
    /\ char_queue = new.char_queue
    /\ saved = new.saved
    /\ from = "Start"
    /\ delivered = 0

----------------------------------------------------------------------------
(* The environment of Spec: a user who keeps the text short *)

\* the characters the user types
Alphabet == {" ", "a", "b", "2", "!"}

RECURSIVE SeqsUpTo(_, _)
SeqsUpTo(S, n) ==
    IF n = 0 THEN {<<>>}
    ELSE LET shorter == SeqsUpTo(S, n - 1) IN
         shorter \cup {Append(q, c) : q \in {x \in shorter : Len(x) = n - 1}, c \in S}

CharBatches == SeqsUpTo(Alphabet, MaxChars)

K(pressed, down) == [pressed |-> pressed, down |-> down]

\* the key states of a frame: keys pressed in it and modifier keys held
MoveKeys == {"Backspace", "Delete", "Left", "Right", "Home", "End"}

\* ... while the user edits
EditKeyStates ==
    {K({}, {})}
    \cup {K({k}, d) : k \in MoveKeys, d \in {{}, {"LeftShift"}}}
    \cup {K({"End"}, {"RightShift"}), K({"A"}, {}), K({"R"}, {})}
    \cup {K({k}, {"LeftControl"}) : k \in {"A", "C", "V", "X"}}
    \cup {K({"X"}, {"RightControl"})}
    \cup {K({"Enter"}, {}), K({"Enter", "Backspace"}, {}),
          K({"Enter", "V"}, {"LeftControl"}), K({"Left", "Right"}, {"LeftShift"}),
          K({"Home", "Delete"}, {"LeftShift"}), K({"A", "X"}, {"LeftControl"})}

\* ... on the other screens
CommandKeyStates ==
    {K(ks, {}) : ks \in SUBSET {"Space", "R", "S"}}
    \cup {K({"Enter"}, {})}

KeyStates(scr) == IF scr = "Input" THEN EditKeyStates ELSE CommandKeyStates

\* the characters that arrive in a frame
Chars(scr) == IF scr = "Input" THEN CharBatches ELSE {<<>>, <<" ">>}

\* the text the Input arm would hand to generate_sigil in this frame
TextAfter(ks, chars) ==
    handle_text_input([Self EXCEPT !.char_queue = char_queue \o chars],
                      [pressed |-> ks.pressed, down |-> ks.down]).intention

\* the points a generation in this frame would make
PointsAhead(ks, chars) ==
    IF state = "Input" /\ "Enter" \in ks.pressed
    THEN Len(Filtered(TextAfter(ks, chars))) ELSE 0

\* the user finalizes only glyphs of at most this many points
MaxPoints == 3

\* the key states of the frames in which the user also types
TypingKeyStates ==
    {K({}, {}), K({"Enter"}, {}), K({"Backspace"}, {}), K({"Left"}, {"LeftShift"}),
     K({"V"}, {"LeftControl"})}

\* what the user of Spec does not do: type into a text of MaxText characters,
\* type while pressing other keys than TypingKeyStates, move or delete in a
\* longer (pasted) text, paste twice, finalize a large glyph
UserOK(ks, chars) ==
    /\ state = "Input" /\ chars # <<>> =>
           /\ Len(intention) + Len(chars) <= MaxText
           /\ ks \in TypingKeyStates
    /\ state = "Input" /\ Len(intention) > MaxText =>
           ks.pressed \cap (MoveKeys \cup {"V"}) = {}
    /\ PointsAhead(ks, chars) <= MaxPoints

In(ks, chars, dt, io, js) ==
    [chars |-> chars, pressed |-> ks.pressed, down |-> ks.down,
     dt |-> dt, io |-> io, js |-> js]

\* get_frame_time() matters on the timed screens only, the export's outcome
\* only when S is pressed, the random draws only when a glyph is generated
Times == IF state \in {"Animating", "Saving"} THEN FrameTimes ELSE {1}
Outcomes(ks) ==
    IF "S" \in ks.pressed /\ state \in {"Display", "Saving"} THEN BOOLEAN ELSE {TRUE}

\* the inputs the user of Spec can give the frame that starts in the current state
Inputs ==
    UNION {UNION {{In(ks, chars, dt, io, js) :
                      dt \in Times, io \in Outcomes(ks),
                      js \in RandomDraws(PointsAhead(ks, chars))} :
                  chars \in {c \in Chars(state) : UserOK(ks, c)}} :
           ks \in KeyStates(state)}

\* a frame of Spec
Tick == \E in \in Inputs : Frame(in)

\* update on each screen
TickStart == state = "Start" /\ Tick
TickInput == state = "Input" /\ Tick
TickDisplay == state = "Display" /\ Tick
TickAnimating == state = "Animating" /\ Tick
TickSaving == state = "Saving" /\ Tick

Next == TickStart \/ TickInput \/ TickDisplay \/ TickAnimating \/ TickSaving

Spec == Init /\ [][Next]_vars

----------------------------------------------------------------------------
(* SpecCap: the editor at the 100-character cap.  The user has entered the
   Input screen and types x and y in turn; once the text is within CapWindow of the
   cap they also paste and select all, and within MaxSel of it they select
   backwards and delete. *)

InitCap ==
    /\ state = "Input"
    /\ progress = new.progress
    /\ line = new.line
    /\ intention = new.intention
    /\ points = new.points
    /\ save_timer = new.save_timer
    /\ cursor_pos = new.cursor_pos
    /\ selection_start = new.selection_start
    /\ char_queue = new.char_queue
    /\ saved = new.saved
    /\ from = "Start"
    /\ delivered = 0

NearCap == Len(intention) >= MaxIntentionLen - CapWindow

\* the length of the selection, 0 without one
Selected ==
    IF selection_start = None THEN 0
    ELSE Max(selection_start[1], cursor_pos) - Min(selection_start[1], cursor_pos)

\* the user deletes only in a text within MaxSel of the cap
AtCap == Len(intention) >= MaxIntentionLen - MaxSel

\* the keys of a frame in which nothing is typed
CapKeyStates ==
    (IF NearCap
     THEN {K({"V"}, {"LeftControl"}), K({"A"}, {"RightControl"})}
     ELSE {})
    \cup (IF AtCap
          THEN {K({"Backspace"}, {}), K({"X"}, {"LeftControl"})}
               \cup (IF Selected < MaxSel THEN {K({"Left"}, {"RightShift"})} ELSE {})
          ELSE {})

\* the character the user types into a text of n characters
CapChar(n) == IF n % 2 = 0 THEN "x" ELSE "y"

\* the next k characters the user types
CapBatch(k) == [i \in 1..k |-> CapChar(Len(intention) + i - 1)]

CapChars == {CapBatch(k) : k \in 0..MaxChars}

\* a frame brings typed characters, or keys, or a character and then a paste
InputsCap ==
    {In(K({}, {}), chars, 1, TRUE, <<>>) : chars \in CapChars}
    \cup {In(ks, <<>>, 1, TRUE, <<>>) : ks \in CapKeyStates}
    \cup (IF NearCap THEN {In(K({"V"}, {"LeftControl"}), CapBatch(1), 1, TRUE, <<>>)} ELSE {})

\* a frame of SpecCap
TickCap == state = "Input" /\ \E in \in InputsCap : Frame(in)

NextCap == TickCap

SpecCap == InitCap /\ [][NextCap]_vars

----------------------------------------------------------------------------
(* SpecAnim: a finalized glyph.  The user has typed one of AnimTexts on the
   Input screen and pressed Enter; the frames that follow are those of the
   Display, Animating and Saving screens. *)

AnimTexts ==
    {<<"b">>, <<"b", "1">>, <<"b", "1", "C">>,
     <<"H", "e", "l", "l", "o", " ", "W", "o", "r", "l", "d">>}

\* the app after the frame that finalizes the typed text
Finalized(text, js) ==
    InputArm([new EXCEPT !.state = "Input", !.intention = text,
                         !.cursor_pos = Len(text)],
             In(K({"Enter"}, {}), <<>>, 1, TRUE, js))

InitAnim ==
    \E text \in AnimTexts :
        \E js \in RandomDraws(Len(Filtered(text))) :
            LET s == Finalized(text, js) IN
            /\ state = s.state
            /\ progress = s.progress
            /\ line = s.line
            /\ intention = s.intention
            /\ points = s.points
            /\ save_timer = s.save_timer
            /\ cursor_pos = s.cursor_pos
            /\ selection_start = s.selection_start
            /\ char_queue = s.char_queue
            /\ saved = s.saved
            /\ from = "Input"
            /\ delivered = 0

\* the frame times of SpecAnim: a quarter of a second, and more than one
AnimFrameTimes == {1, 5}

InputsAnim ==
    UNION {{In(ks, chars, dt, io, <<>>) :
               chars \in {<<>>, <<" ">>}, dt \in AnimFrameTimes, io \in Outcomes(ks)} :
           ks \in CommandKeyStates}

AnimDisplay == state = "Display" /\ \E in \in InputsAnim : Frame(in)
AnimAnimating == state = "Animating" /\ \E in \in InputsAnim : Frame(in)
AnimSaving == state = "Saving" /\ \E in \in InputsAnim : Frame(in)

NextAnim == AnimDisplay \/ AnimAnimating \/ AnimSaving

SpecAnim == InitAnim /\ [][NextAnim]_vars

\* main calls update in every iteration of its loop, so a frame on the
\* Animating screen, which always changes the app, is eventually taken
LiveAnim == SpecAnim /\ WF_vars(AnimAnimating)

----------------------------------------------------------------------------
(* SpecGen: the frame that finalizes.  The user has typed one of GenTexts on
   the Input screen, has perhaps selected it all, and presses Enter, in a
   frame that may also bring typed characters and editing keys. *)

\* the longest text of GenTexts, but for HelloWorld
GenLen == 2

GenAlphabet == {"a", "B", "b", "k", "1", " "}

HelloWorld == <<"H", "e", "l", "l", "o", " ", "W", "o", "r", "l", "d">>

GenTexts == SeqsUpTo(GenAlphabet, GenLen) \cup {HelloWorld}

InitGen ==
    \E text \in GenTexts :
        \E sel \in {None, Some(0)} :
            /\ state = "Input"
            /\ progress = new.progress
            /\ line = new.line
            /\ intention = text
            /\ points = new.points
            /\ save_timer = new.save_timer
            /\ cursor_pos = Len(text)
            /\ selection_start = sel
            /\ char_queue = new.char_queue
            /\ saved = new.saved
            /\ from = "Input"
            /\ delivered = 0

\* the keys of the finalizing frame
GenKeyStates ==
    {K({"Enter"}, {}), K({"Enter", "Backspace"}, {}), K({"Enter", "Delete"}, {}),
     K({"Enter", "V"}, {"LeftControl"}), K({"Enter", "X"}, {"RightControl"})}

\* the characters typed in the finalizing frame
GenChars == SeqsUpTo({"k", "a", "!"}, MaxChars)

\* the user types only while the text stays short, and finalizes a glyph of
\* more than MaxPoints points only for HelloWorld as it is, or by pasting
\* into the empty text
GenOK(ks, chars) ==
    /\ chars # <<>> => Len(intention) + Len(chars) <= GenLen + 1
    /\ \/ Len(Filtered(TextAfter(ks, chars))) <= MaxPoints
       \/ /\ chars = <<>>
          /\ \/ intention = HelloWorld /\ ks.pressed = {"Enter"}
             \/ intention = <<>> /\ "V" \in ks.pressed

InputsGen ==
    UNION {UNION {{In(ks, chars, 1, TRUE, js) :
                      js \in RandomDraws(Len(Filtered(TextAfter(ks, chars))))} :
                  chars \in {c \in GenChars : GenOK(ks, c)}} :
           ks \in GenKeyStates}

\* a finalizing frame
GenFinalize == state = "Input" /\ \E in \in InputsGen : Frame(in)

NextGen == GenFinalize

SpecGen == InitGen /\ [][NextGen]_vars

----------------------------------------------------------------------------
(* Properties.  A property of a frame is stated in the state the frame starts
   in, for every input the frame can get: update(Self, in) is the app at the
   end of that frame. *)

\* C1: the cursor is within [0, length] of the intention text and, when there
\* is a selection anchor, 0 <= min(anchor, cursor) <= max(anchor, cursor) <= length
SelectionInvariant ==
    /\ 0 <= cursor_pos /\ cursor_pos <= Len(intention)
    /\ selection_start # None =>
           LET anchor == selection_start[1] IN
           /\ 0 <= Min(anchor, cursor_pos)
           /\ Min(anchor, cursor_pos) <= Max(anchor, cursor_pos)
           /\ Max(anchor, cursor_pos) <= Len(intention)

\* C1 witness: a selection made backwards over a whole text of several
\* characters (the anchor at the end, the cursor at 0)
SelectionInvariantWitness ==
    /\ state = "Input"
    /\ Len(intention) >= 2
    /\ selection_start = Some(Len(intention))
    /\ cursor_pos = 0

\* C3: the app is constructed on Start, and a frame that starts on Start, Input, Display or Animating leaves the
\* screen unchanged or takes exactly one edge of the transition table, on that
\* edge's trigger; the keys of a frame never decide where Animating goes
TransitionTable ==
    /\ new.state = "Start"
    /\ state \in {"Start", "Input", "Display", "Animating"} =>
        \A in \in Inputs :
            LET r == update(Self, in) IN
            /\ \/ r.state = state
               \/ /\ state = "Start" /\ r.state = "Input"
                  /\ "Space" \in in.pressed
               \/ /\ state = "Input" /\ r.state = "Display"
                  /\ "Enter" \in in.pressed
                  /\ r.points # <<>>
               \/ /\ state = "Display" /\ r.state = "Animating"
                  /\ r.progress = 0 /\ r.line = 0
                  /\ "Space" \in in.pressed /\ Len(points) > 1
               \/ /\ state = "Display" /\ r.state = "Input"
                  /\ "R" \in in.pressed
               \/ /\ state = "Display" /\ r.state = "Saving"
                  /\ "S" \in in.pressed
               \/ /\ state = "Animating" /\ r.state = "Display"
                  /\ progress + in.dt * ANIMATION_SPEED >= ONE
                  /\ line + 1 >= Len(points) - 1
            /\ state = "Animating" =>
                   r.state = update(Self, [in EXCEPT !.pressed = {}, !.down = {}]).state

\* C3 witness: the edge Display -> Animating{progress 0, segment 0} was taken
TransitionTableWitness ==
    /\ from = "Display" /\ state = "Animating"
    /\ progress = 0 /\ line = 0

\* C4 (as claimed): a frame that starts on Saving ends on Saving or Display,
\* attempts no export and leaves the text, cursor, selection and points alone,
\* whatever is pressed, also in the frame in which the save timer expires
SavingIgnoresInput ==
    state = "Saving" =>
        \A in \in Inputs :
            LET r == update(Self, in) IN
            /\ r.state \in {"Saving", "Display"}
            /\ r.saved = "none"
            /\ r.intention = intention
            /\ r.cursor_pos = cursor_pos
            /\ r.selection_start = selection_start
            /\ r.points = points

\* C5 (as claimed), for the frames in which no key is pressed, so that the end
\* of the frame shows the timer's transition alone: the frame in which the time
\* since entering Saving reaches at least 1.0 second, exactly 1.0 included,
\* ends on Display with save_timer 0, and earlier frames end on Saving
SaveTimerAtOneSecond ==
    state = "Saving" =>
        \A in \in {i \in Inputs : i.pressed = {}} :
            LET r == update(Self, in) IN
            IF save_timer + in.dt >= ONE
            THEN r.state = "Display" /\ r.save_timer = 0
            ELSE r.state = "Saving"

\* C7: the character queue is empty at the end of every frame, and a frame
\* that starts on a screen other than Input puts no character in the text:
\* the text is as before or cleared, and empty if the frame ends on Input
CharsDiscarded ==
    /\ char_queue = <<>>
    /\ state # "Input" =>
           \A in \in Inputs :
               LET r == update(Self, in) IN
               /\ r.char_queue = <<>>
               /\ r.intention = intention \/ r.intention = <<>>
               /\ r.state = "Input" => r.intention = <<>>

\* C7 witness: the frame that took Start -> Input was given a character
CharsDiscardedWitness ==
    /\ from = "Start" /\ state = "Input"
    /\ delivered > 0
    /\ intention = <<>>

\* C8: Animating holds at least 2 points; it is entered only by the Display
\* arm, on the animate key, with at least 2 points; on Display with exactly 1
\* point no frame leads to Animating
AnimatingNeedsTwoPoints ==
    /\ state = "Animating" => Len(points) >= 2
    /\ \A in \in Inputs :
           LET r == update(Self, in) IN
           /\ state # "Animating" /\ r.state = "Animating" =>
                  /\ SaveTimerStep(Self, in).state = "Display"
                  /\ "Space" \in in.pressed
                  /\ Len(points) >= 2
           /\ state = "Display" /\ Len(points) = 1 => r.state # "Animating"

\* C8 witness: a glyph of exactly 1 point stayed on Display through a frame
AnimatingNeedsTwoPointsWitness ==
    /\ from = "Display" /\ state = "Display"
    /\ Len(points) = 1

\* the number of acceptable characters of a text
RECURSIVE CountAcceptable(_)
CountAcceptable(text) ==
    IF text = <<>> THEN 0
    ELSE (IF Acceptable(Head(text)) THEN 1 ELSE 0) + CountAcceptable(Tail(text))

\* C2: the text never holds more than 100 characters, and a frame that only
\* types acceptable characters into a text without a selection inserts, at the
\* cursor, those for which there is room below 100 characters, drops the
\* others and advances the cursor by the number inserted (so it stays at 100)
IntentionCap ==
    /\ Len(intention) <= MaxIntentionLen
    /\ selection_start = None =>
           \A in \in {i \in InputsCap : i.pressed = {}} :
               LET r == update(Self, in)
                   n == Min(Len(in.chars), MaxIntentionLen - Len(intention))
               IN  /\ CountAcceptable(in.chars) = Len(in.chars)
                   /\ r.intention = SubSeq(intention, 1, cursor_pos)
                                     \o SubSeq(in.chars, 1, n)
                                     \o SubSeq(intention, cursor_pos + 1, Len(intention))
                   /\ r.cursor_pos = cursor_pos + n
                   /\ Len(r.intention) <= MaxIntentionLen

\* C2 witness: 100 characters were typed, one after the other, into the empty
\* text, and the cursor is at 100
IntentionCapWitness ==
    /\ intention = [i \in 1..MaxIntentionLen |-> CapChar(i - 1)]
    /\ cursor_pos = MaxIntentionLen
    /\ selection_start = None
    /\ delivered > 0

\* C6 (as claimed): a frame in which only Ctrl+V is pressed leaves a text of
\* min(100, L + k) characters, L being the length after deleting the selection
\* and k the number of acceptable characters of the pasted text, and the
\* cursor that many characters after the place of the deleted selection
PasteFillsToCap ==
    \A in \in {i \in InputsCap : i.pressed = {"V"} /\ i.chars = <<>>} :
        LET d == delete_selection(Self)
            L == Len(d.intention)
            k == CountAcceptable(paste_text)
            r == update(Self, in)
        IN  /\ Len(r.intention) = Min(MaxIntentionLen, L + k)
            /\ r.cursor_pos = d.cursor_pos + (Len(r.intention) - L)

\* C9: on the Animating screen, between frames, progress is within [0, 1] and
\* line within [0, number of points - 2], so that points[line] and
\* points[line + 1], the ends of the segment being drawn, both exist
AnimationInRange ==
    state = "Animating" =>
        /\ 0 <= progress /\ progress <= ONE
        /\ 0 <= line /\ line <= Len(points) - 2
        /\ line + 1 \in DOMAIN points
        /\ line + 2 \in DOMAIN points

\* C9 witness: the last segment of a glyph of several segments is being drawn
AnimationInRangeWitness ==
    /\ state = "Animating"
    /\ line >= 1 /\ line = Len(points) - 2
    /\ progress > 0

\* C10: when every frame takes a positive time, the Animating screen leads to
\* the Display screen, whichever keys are pressed or not pressed meanwhile
AnimationCompletes == (state = "Animating") ~> (state = "Display")

\* C10 witness: the frame that drew the end of the last segment of a glyph of
\* several segments went back to Display
AnimationCompletesWitness ==
    /\ from = "Animating" /\ state = "Display"
    /\ Len(points) > 2

\* the normalized string of an intention, step by step: lowercased, only
\* ASCII letters and digits kept, the vowels aeiou dropped, duplicates removed
\* keeping the first occurrence
Lowercased(text) == [i \in 1..Len(text) |-> to_ascii_lowercase(text[i])]

IsLetterOrDigit(c) == c \in Range(LowerLetters) \cup Range(DigitChars)

NotVowel(c) == c \notin {"a", "e", "i", "o", "u"}

RECURSIVE Dedup(_)
Dedup(text) ==
    IF text = <<>> THEN <<>>
    ELSE LET init == Dedup(SubSeq(text, 1, Len(text) - 1))
             last == text[Len(text)]
         IN  IF last \in Range(init) THEN init ELSE Append(init, last)

Normalized(text) ==
    Dedup(SelectSeq(SelectSeq(Lowercased(text), IsLetterOrDigit), NotVowel))

\* the digit of a normalized character: its value, or (offset from 'a') mod 10
Digit(c) ==
    IF c \in Range(DigitChars)
    THEN CHOOSE d \in 0..9 : DigitChars[d + 1] = c
    ELSE (CHOOSE o \in 0..25 : LowerLetters[o + 1] = c) % 10

\* how often the label d occurs in a sequence of labels
LabelCount(labels, d) == Cardinality({i \in DOMAIN labels : labels[i] = d})

\* the labels are, as a multiset, the digits of the normalized string of text
IsGlyphOf(labels, text) ==
    /\ Len(labels) = Len(Normalized(text))
    /\ \A d \in 0..9 :
           LabelCount(labels, d)
               = LabelCount([i \in 1..Len(Normalized(text)) |-> Digit(Normalized(text)[i])], d)

\* C11: finalizing a text whose normalized string is not empty produces,
\* whatever the shuffle draws, as many points as that string has characters,
\* with the multiset of its digits as labels
GlyphOfNormalized ==
    /\ state = "Display" => IsGlyphOf(points, intention)
    /\ state = "Input" /\ Normalized(intention) # <<>> =>
               \A js \in RandomDraws(Len(Normalized(intention))) :
                   LET r == update(Self, In(K({"Enter"}, {}), <<>>, 1, TRUE, js)) IN
                   /\ r.state = "Display"
                   /\ IsGlyphOf(r.points, intention)

\* C11 witness: "Hello World" became a glyph of 5 points whose order is not
\* the order of h, l, w, r, d
GlyphOfNormalizedWitness ==
    /\ state = "Display"
    /\ intention = HelloWorld
    /\ Len(points) = 5
    /\ points # <<7, 1, 2, 7, 3>>

\* the frame without its Enter key
WithoutEnter(in) == [in EXCEPT !.pressed = @ \ {"Enter"}]

\* C12: a frame on Input in which Enter is pressed while the text, after the
\* frame's edits, is empty, blank or without a non-vowel letter or digit ends
\* on Input with the points, text, cursor and selection as the edits left
\* them; when the frame brings nothing but Enter, as they were
FinalizeFailsSilently ==
    state = "Input" =>
        \A in \in InputsGen :
            LET r == update(Self, in)
                e == update(Self, WithoutEnter(in))
            IN  /\ "Enter" \in in.pressed
                /\ Normalized(e.intention) = <<>> =>
                       /\ r.state = "Input"
                       /\ r.points = e.points
                       /\ r.intention = e.intention
                       /\ r.cursor_pos = e.cursor_pos
                       /\ r.selection_start = e.selection_start
                       /\ in.chars = <<>> /\ in.pressed = {"Enter"} =>
                              /\ r.points = points
                              /\ r.intention = intention
                              /\ r.cursor_pos = cursor_pos
                              /\ r.selection_start = selection_start

\* C12 witness: Enter was pressed in the frame that typed a vowel after a
\* space, and the screen is still Input
FinalizeFailsSilentlyWitness ==
    /\ from = "Input" /\ state = "Input"
    /\ delivered > 0
    /\ intention = <<" ", "a">>
    /\ points = <<>>

\* C13: a frame that goes from Display to Input ends with the empty text, the
\* cursor at 0, no selection anchor and no points
ResetClears ==
    /\ from = "Display" /\ state = "Input" =>
           /\ intention = <<>> /\ cursor_pos = 0
           /\ selection_start = None /\ points = <<>>
    /\ state = "Display" =>
           \A in \in Inputs :
               LET r == update(Self, in) IN
               r.state = "Input" =>
                   /\ "R" \in in.pressed
                   /\ r.intention = <<>> /\ r.cursor_pos = 0
                   /\ r.selection_start = None /\ r.points = <<>>

\* C13 witness: the reset key of Display was handled in a frame that also
\* delivered a character
ResetClearsWitness ==
    /\ from = "Display" /\ state = "Input"
    /\ delivered > 0
    /\ points = <<>>

\* C14: a frame on Display that handles the save key ends on Saving with the
\* save timer at 0, the text and the points unchanged, whether save_sigil
\* returns Ok or an error, and but for that result ends the same in both
\* cases; a frame on Saving does not depend on how the export ended
SaveAlwaysConfirms ==
    /\ state = "Display" =>
           \A in \in Inputs :
               /\ "S" \in in.pressed /\ "R" \notin in.pressed
               /\ ~("Space" \in in.pressed /\ Len(points) > 1)
               => LET r == update(Self, in)
                      o == update(Self, [in EXCEPT !.io = ~in.io])
                  IN  /\ r.state = "Saving"
                      /\ r.saved = (IF in.io THEN "ok" ELSE "err")
                      /\ r.save_timer = 0
                      /\ r.intention = intention
                      /\ r.points = points
                      /\ [r EXCEPT !.saved = "none"] = [o EXCEPT !.saved = "none"]
    /\ state = "Saving" =>
           \A in \in Inputs :
               \A v \in {"none", "ok", "err"} :
                   update([Self EXCEPT !.saved = v], in) = update(Self, in)

\* C14 witness: the export failed and the screen is Saving
SaveAlwaysConfirmsWitness ==
    /\ from = "Display" /\ state = "Saving"
    /\ saved = "err"
    /\ save_timer = 0

\* C15 (as claimed): a frame on Input that brings one typed character and no
\* key inserts it if it is acceptable and the text, at the start, is shorter
\* than 100: the selection is deleted, the character put at the cursor, the
\* cursor advanced by 1; otherwise text, cursor and anchor stay as they are
InsertAccepted ==
    state = "Input" =>
        \A in \in {i \in InputsCap : i.pressed = {} /\ Len(i.chars) = 1} :
            LET r == update(Self, in)
                ch == in.chars[1]
                d == delete_selection(Self)
            IN  IF Acceptable(ch) /\ Len(intention) < MaxIntentionLen
                THEN /\ r.intention = SubSeq(d.intention, 1, d.cursor_pos) \o <<ch>>
                                       \o SubSeq(d.intention, d.cursor_pos + 1, Len(d.intention))
                     /\ r.cursor_pos = d.cursor_pos + 1
                     /\ r.selection_start = None
                ELSE /\ r.intention = intention
                     /\ r.cursor_pos = cursor_pos
                     /\ r.selection_start = selection_start

\* a frame on Input in which only key k is pressed, with the modifiers d held
KeyFrame(k, d) == In(K({k}, d), <<>>, 1, TRUE, <<>>)

\* text without the characters at the offsets lo .. hi - 1
Without(text, lo, hi) == SubSeq(text, 1, lo) \o SubSeq(text, hi + 1, Len(text))

\* C16: Backspace and Delete with a selection anchor remove exactly the
\* characters from min(anchor, cursor) up to max(anchor, cursor), put the
\* cursor at min(anchor, cursor) and clear the anchor; without an anchor
\* Backspace removes the character before the cursor and moves the cursor
\* back by one (nothing at 0), Delete removes the character at the cursor
\* and leaves the cursor (nothing at the end); the other characters keep
\* their order
DeleteKeys ==
    state = "Input" =>
        \A k \in {"Backspace", "Delete"} :
            LET r == update(Self, KeyFrame(k, {})) IN
            IF selection_start # None
            THEN LET lo == Min(selection_start[1], cursor_pos)
                     hi == Max(selection_start[1], cursor_pos)
                 IN  /\ r.intention = Without(intention, lo, hi)
                     /\ r.cursor_pos = lo
                     /\ r.selection_start = None
            ELSE /\ r.selection_start = None
                 /\ k = "Backspace" =>
                        IF cursor_pos > 0
                        THEN /\ r.intention = Without(intention, cursor_pos - 1, cursor_pos)
                             /\ r.cursor_pos = cursor_pos - 1
                        ELSE r.intention = intention /\ r.cursor_pos = cursor_pos
                 /\ k = "Delete" =>
                        /\ r.cursor_pos = cursor_pos
                        /\ r.intention = IF cursor_pos < Len(intention)
                                          THEN Without(intention, cursor_pos, cursor_pos + 1)
                                          ELSE intention

\* C16 witness: the second of two different characters is selected backwards
DeleteKeysWitness ==
    /\ state = "Input"
    /\ Len(intention) = 2 /\ intention[1] # intention[2]
    /\ selection_start = Some(2)
    /\ cursor_pos = 1

\* where a cursor key takes the cursor
MoveTarget(k) ==
    CASE k = "Left" -> Max(0, cursor_pos - 1)
      [] k = "Right" -> Min(Len(intention), cursor_pos + 1)
      [] k = "Home" -> 0
      [] k = "End" -> Len(intention)

\* C17 (as claimed): Left, Right, Home and End leave the text alone and move
\* the cursor by one, clamped to [0, length], or to 0 or the length; without
\* Shift the anchor is cleared; with Shift and no anchor the anchor becomes
\* the cursor position before the move; with Shift and an anchor the anchor
\* stays
CursorMoves ==
    state = "Input" =>
        \A k \in {"Left", "Right", "Home", "End"} :
            \A d \in {{}, {"LeftShift"}, {"RightShift"}} :
                LET r == update(Self, KeyFrame(k, d)) IN
                /\ r.intention = intention
                /\ r.cursor_pos = MoveTarget(k)
                /\ r.selection_start =
                       IF d = {} THEN None
                       ELSE IF selection_start = None THEN Some(cursor_pos)
                       ELSE selection_start

\* C18: between frames save_timer is 0 on every screen but Saving, and 0 on
\* Saving right after a frame that began on another screen
SaveTimerIdle ==
    /\ state # "Saving" => save_timer = 0
    /\ from # "Saving" /\ state = "Saving" => save_timer = 0

\* C18 witness: the save timer expired and the screen is Display again
SaveTimerIdleWitness ==
    /\ from = "Saving" /\ state = "Display"
    /\ save_timer = 0
    /\ points # <<>>

\* C19: a frame on Animating that brings progress to 1 or more completes the
\* segment being drawn and no other: it ends on Display if that was the last
\* of the number of points - 1 segments, and else on Animating with the next
\* segment at progress 0; any other frame stays on the segment and adds
\* frame time * ANIMATION_SPEED to progress
OneSegmentPerFrame ==
    state = "Animating" =>
        \A in \in InputsAnim :
            LET r == update(Self, in)
                p == progress + in.dt * ANIMATION_SPEED
            IN  IF p >= ONE
                THEN IF line + 1 = Len(points) - 1
                     THEN r.state = "Display"
                     ELSE /\ r.state = "Animating"
                          /\ r.line = line + 1
                          /\ r.progress = 0
                ELSE /\ r.state = "Animating"
                     /\ r.line = line
                     /\ r.progress = p

\* C19 witness: a segment that is not the last was completed
OneSegmentPerFrameWitness ==
    /\ from = "Animating" /\ state = "Animating"
    /\ line >= 1
    /\ progress = 0

\* the fields of the app that a frame on Input decides
Outcome(s) ==
    <<s.state, s.intention, s.cursor_pos, s.selection_start, s.points, s.char_queue>>

\* C20: a frame on Input with typed characters, editing keys and Enter ends
\* as the two frames would that bring first the characters and editing keys,
\* then Enter alone: the text is the edited text, and if its normalized
\* string is not empty the frame ends on Display with the glyph of the edited
\* text; characters typed after an unselected text are at its end
EditsBeforeFinalize ==
    state = "Input" =>
        \A in \in InputsGen :
            LET r == update(Self, in)
                e == update(Self, WithoutEnter(in))
                f == update(e, In(K({"Enter"}, {}), <<>>, in.dt, in.io, in.js))
            IN  /\ e.state = "Input"
                /\ Outcome(r) = Outcome(f)
                /\ r.intention = e.intention
                /\ Normalized(e.intention) # <<>> =>
                       /\ r.state = "Display"
                       /\ IsGlyphOf(r.points, e.intention)
                /\ /\ in.pressed = {"Enter"} /\ selection_start = None
                   /\ CountAcceptable(in.chars) = Len(in.chars)
                   => r.intention = intention \o in.chars

\* C20 witness: a consonant was typed after a vowel in the frame of the Enter
\* key, and the glyph is that of the consonant
EditsBeforeFinalizeWitness ==
    /\ from = "Input" /\ state = "Display"
    /\ delivered > 0
    /\ intention = <<"a", "k">>
    /\ points = <<0>>

\* C21: between frames there are no points on Start and on Input, and at
\* least 1 point on Display, Animating and Saving
GlyphShownIffPoints ==
    /\ state \in {"Start", "Input"} => points = <<>>
    /\ state \in {"Display", "Animating", "Saving"} => Len(points) >= 1

\* C21 witness: a glyph of several points has just been generated and is shown
GlyphShownIffPointsWitness ==
    /\ from = "Input" /\ state = "Display"
    /\ Len(points) >= 2

\* C22: on Display, Animating and Saving the points are, in number and as a
\* multiset of labels, the digits of the normalized text; a frame that begins
\* there leaves text and points as they are, or clears both and ends on
\* Input; the frame that exports leaves them as they are
GlyphMatchesText ==
    state \in {"Display", "Animating", "Saving"} =>
        /\ IsGlyphOf(points, intention)
        /\ \A in \in InputsAnim :
               LET r == update(Self, in) IN
               /\ \/ r.intention = intention /\ r.points = points
                  \/ /\ r.state = "Input" /\ "R" \in in.pressed
                     /\ r.intention = <<>> /\ r.points = <<>>
               /\ r.saved # "none" => r.intention = intention /\ r.points = points

\* C22 witness: the glyph of "Hello World" was exported
GlyphMatchesTextWitness ==
    /\ state = "Saving"
    /\ saved = "ok"
    /\ intention = HelloWorld
    /\ Len(points) = 5

\* C23: a frame on Display executes one command at most: animate if Space is
\* pressed and there are 2 or more points; else reset if R is pressed; else
\* the export if S is pressed; so with R and S pressed nothing is exported
\* and Saving is not entered, and with 1 point Space and R make the reset
CommandPriority ==
    state = "Display" =>
        \A in \in Inputs :
            LET r == update(Self, in) IN
            IF "Space" \in in.pressed /\ Len(points) > 1
            THEN /\ r.state = "Animating" /\ r.saved = "none"
                 /\ r.intention = intention /\ r.points = points
            ELSE IF "R" \in in.pressed
            THEN /\ r.state = "Input" /\ r.saved = "none"
                 /\ r.intention = <<>> /\ r.points = <<>>
            ELSE IF "S" \in in.pressed
            THEN /\ r.state = "Saving" /\ r.saved # "none"
                 /\ r.intention = intention /\ r.points = points
            ELSE /\ r.state = "Display" /\ r.saved = "none"
                 /\ r.intention = intention /\ r.points = points

\* C23 witness: a glyph of 1 point, which Space does not animate, was exported
CommandPriorityWitness ==
    /\ from = "Display" /\ state = "Saving"
    /\ Len(points) = 1
    /\ saved = "ok"

\* C24: no frame that begins on another screen than Start ends on Start, so
\* the screen, once it has left Start, is never Start again
NeverBackToStart == [][state # "Start" => state' # "Start"]_vars

\* C24 witness: the reset key of Display was handled, and the screen is Input
NeverBackToStartWitness ==
    /\ from = "Display" /\ state = "Input"
    /\ delivered = 0
    /\ intention = <<>>

====
